---- MODULE Spec2Model ----
(***************************************************************************)
(* The console stream controller of components/server/Console.tsx: the     *)
(* socket listener effect, the terminal line handlers and the command      *)
(* input with its persisted history.                                       *)
(*                                                                         *)
(* Text (a payload, a command, a rendered line) is a sequence of tokens: a *)
(* token is one character or one fixed chunk of text, CR and LF are single *)
(* tokens.  A store change and the render, effect cleanup and effect run   *)
(* it causes are one step: handlers and keystrokes run to completion on    *)
(* one execution context.                                                  *)
(***************************************************************************)
EXTENDS Integers, Sequences, FiniteSets, TLC

VARIABLES
    mounted,          \* the Console component is mounted
    connected,        \* state.socket.connected
    instance,         \* state.socket.instance (NoInstance = null)
    isTransferring,   \* state.server.data.isTransferring
    canSendCommands,  \* usePermissions([ 'control.console' ])
    history,          \* usePersistedState(`${serverId}:command_history`)
    historyIndex,     \* useState(-1)
    inputValue,       \* e.currentTarget.value of the CommandInput
    buffer,           \* lines held by the terminal
    registered,       \* per instance and event name, the listener array
    effect,           \* what the last run of the listener effect closed over
    sent,             \* requests the last step sent on a connection
    calls,            \* calls the listener effect and its cleanup made in the
                      \* last step, in the order of the code
    delivered,        \* the event the last step delivered, if it delivered one
    serverId,         \* state.server.data.id
    storage,          \* the persisted state, by key
    submitted,        \* every command ever submitted, most recent first
    nSubmitted,       \* commands submitted since Init
    lastOp            \* the operation the last step performed

vars == << mounted, connected, instance, isTransferring, canSendCommands,
           history, historyIndex, inputValue, buffer, registered, effect,
           sent, calls, delivered, serverId, storage, submitted, nSubmitted,
           lastOp >>

(***************************************************************************)
(* Bounds of the model.                                                    *)
(***************************************************************************)
MaxInstances == 2
MaxCycles == 4
MaxBuf == 2
MaxSubmit == 2
MaxServers == 2
MaxLine == 3

(***************************************************************************)
(* Program constants.                                                      *)
(***************************************************************************)
HISTORY_LIMIT == 32

NoInstance == 0
Instances == 1..MaxInstances

ServerIds == 1..MaxServers

CR == "\r"
LF == "\n"
RESET == "ESC[0m"
TERMINAL_PRELUDE == << "ESC[1m", "ESC[33m", "container@pterodactyl~ ", RESET >>
ERROR_MARKER == << "ESC[1m", "ESC[41m" >>

EventNames == { "STATUS", "CONSOLE_OUTPUT", "INSTALL_OUTPUT", "TRANSFER_LOGS",
                "TRANSFER_STATUS", "DAEMON_MESSAGE", "DAEMON_ERROR" }

NoListeners == [ i \in Instances |-> [ ev \in EventNames |-> << >> ] ]

(***************************************************************************)
(* line.replace(/(?:\r\n|\r|\n)$/im, ''): the first match, from the left,  *)
(* of a terminator followed by an end of line is removed.  Under the m     *)
(* flag an end of line is the end of the text or a position in front of a  *)
(* line terminator.                                                        *)
(***************************************************************************)
IsTerminator(ch) == ch \in { CR, LF }

EndOfLine(line, p) == p > Len(line) \/ IsTerminator(line[p])

MatchLen(line, p) ==
    IF p + 1 <= Len(line) /\ line[p] = CR /\ line[p + 1] = LF /\ EndOfLine(line, p + 2)
    THEN 2
    ELSE IF IsTerminator(line[p]) /\ EndOfLine(line, p + 1) THEN 1 ELSE 0

StripTerminator(line) ==
    LET hits == { p \in 1..Len(line) : MatchLen(line, p) > 0 }
    IN  IF hits = {} THEN line
        ELSE LET p == CHOOSE q \in hits : \A r \in hits : q <= r
             IN  SubSeq(line, 1, p - 1) \o SubSeq(line, p + MatchLen(line, p), Len(line))

(***************************************************************************)
(* The handlers: each yields the lines it writes to the terminal.          *)
(***************************************************************************)
handleConsoleOutput(line, prelude) ==
    << (IF prelude THEN TERMINAL_PRELUDE ELSE << >>) \o StripTerminator(line) \o << RESET >> >>

\* Mutant: a default case that writes the status.
handleTransferStatusDefault(status) ==
    IF status = << "failure" >>
    THEN << TERMINAL_PRELUDE \o << "Transfer has failed.", RESET >> >>
    ELSE IF status = << "archive" >>
    THEN << TERMINAL_PRELUDE
            \o << "Server has been archived successfully, attempting connection to target node..",
                  RESET >> >>
    ELSE << TERMINAL_PRELUDE \o status \o << RESET >> >>

handleTransferStatus(status) ==
    IF status = << "failure" >>
    THEN << TERMINAL_PRELUDE \o << "Transfer has failed.", RESET >> >>
    ELSE IF status = << "archive" >>
    THEN << TERMINAL_PRELUDE
            \o << "Server has been archived successfully, attempting connection to target node..",
                  RESET >> >>
    ELSE << >>

handleDaemonErrorOutput(line) ==
    << TERMINAL_PRELUDE \o ERROR_MARKER \o StripTerminator(line) \o << RESET >> >>

handlePowerChangeEvent(state) ==
    << TERMINAL_PRELUDE \o << "Server marked as " >> \o state \o << "...", RESET >> >>

(***************************************************************************)
(* The listeners object one run of the effect builds: a handler is the     *)
(* function of that run, so it carries the identity of the run.            *)
(***************************************************************************)
HandlerName(ev) ==
    CASE ev = "STATUS" -> "handlePowerChangeEvent"
      [] ev \in { "CONSOLE_OUTPUT", "INSTALL_OUTPUT", "TRANSFER_LOGS" } -> "handleConsoleOutput"
      [] ev = "TRANSFER_STATUS" -> "handleTransferStatus"
      [] ev = "DAEMON_MESSAGE" -> "daemonMessage"
      [] ev = "DAEMON_ERROR" -> "handleDaemonErrorOutput"

Listeners(c) == [ ev \in EventNames |-> [ fn |-> HandlerName(ev), cycle |-> c ] ]

Call(handler, payload) ==
    CASE handler.fn = "handlePowerChangeEvent" -> handlePowerChangeEvent(payload)
      [] handler.fn = "handleConsoleOutput" -> handleConsoleOutput(payload, FALSE)
      [] handler.fn = "handleTransferStatus" -> handleTransferStatus(payload)
      [] handler.fn = "daemonMessage" -> handleConsoleOutput(payload, TRUE)
      [] handler.fn = "handleDaemonErrorOutput" -> handleDaemonErrorOutput(payload)

(***************************************************************************)
(* The connection instance's listener arrays: addListener appends,         *)
(* removeListener removes at most one occurrence, the most recently added. *)
(***************************************************************************)
addListener(list, handler) == Append(list, handler)

removeListener(list, handler) ==
    LET at == { k \in 1..Len(list) : list[k] = handler }
    IN  IF at = {} THEN list
        ELSE LET k == CHOOSE q \in at : \A r \in at : r <= q
             IN  SubSeq(list, 1, k - 1) \o SubSeq(list, k + 1, Len(list))

(***************************************************************************)
(* The listener effect, deps [ connected, instance ].                      *)
(***************************************************************************)
NoEffect == [ instance |-> NoInstance, cycle |-> 0 ]

Cycles == 1..MaxCycles

\* The identities of listeners objects still referenced by a listener array.
LiveCycles(reg) ==
    UNION { { reg[i][ev][k].cycle : k \in DOMAIN reg[i][ev] } : <<i, ev>> \in Instances \X EventNames }

\* Mutant: the guard forgets the connection.
ShouldActivateAnyConnection(conn, inst) == inst # NoInstance

\* Mutant: the activation is gated by the permission too.
ShouldActivateWithPermission(conn, inst) == conn /\ inst # NoInstance /\ canSendCommands

ShouldActivate(conn, inst) == conn /\ inst # NoInstance

\* Mutant: the terminal is cleared whatever the transfer state.
ClearedBufferAlways(transferring, buf) == << >>

ClearedBuffer(transferring, buf) == IF ~transferring THEN << >> ELSE buf

Subscribe(reg, inst, c) ==
    [ reg EXCEPT ![inst] = [ ev \in EventNames |-> addListener(reg[inst][ev], Listeners(c)[ev]) ] ]

\* Mutant: the replay is requested twice.
SendLogsTwice(inst) ==
    << [ to |-> inst, event |-> "SEND_LOGS", args |-> << >> ],
       [ to |-> inst, event |-> "SEND_LOGS", args |-> << >> ] >>

SendLogs(inst) == << [ to |-> inst, event |-> "SEND_LOGS", args |-> << >> ] >>

\* Mutant: the cleanup adds the listeners instead of removing them.
CleanupAdds(eff, reg) ==
    IF eff.instance # NoInstance
    THEN [ reg EXCEPT ![eff.instance] =
             [ ev \in EventNames |-> addListener(reg[eff.instance][ev], Listeners(eff.cycle)[ev]) ] ]
    ELSE reg

\* Mutant: the cleanup reads the instance of the store, not the one the run
\* closed over.
CleanupCurrentInstance(eff, reg) ==
    IF instance' # NoInstance
    THEN [ reg EXCEPT ![instance'] =
             [ ev \in EventNames |-> removeListener(reg[instance'][ev], Listeners(eff.cycle)[ev]) ] ]
    ELSE reg

\* Mutant: the cleanup skips the daemon error listener.
CleanupPartial(eff, reg) ==
    IF eff.instance # NoInstance
    THEN [ reg EXCEPT ![eff.instance] =
             [ ev \in EventNames |->
                 IF ev = "DAEMON_ERROR" THEN reg[eff.instance][ev]
                 ELSE removeListener(reg[eff.instance][ev], Listeners(eff.cycle)[ev]) ] ]
    ELSE reg

\* Mutant: the effect returns no cleanup.
CleanupNone(eff, reg) == reg

Cleanup(eff, reg) ==
    IF eff.instance # NoInstance
    THEN [ reg EXCEPT ![eff.instance] =
             [ ev \in EventNames |-> removeListener(reg[eff.instance][ev], Listeners(eff.cycle)[ev]) ] ]
    ELSE reg

\* The keys of the listeners object, in the order Object.keys yields them.
EventOrder == << "STATUS", "CONSOLE_OUTPUT", "INSTALL_OUTPUT", "TRANSFER_LOGS",
                 "TRANSFER_STATUS", "DAEMON_MESSAGE", "DAEMON_ERROR" >>

CallOf(name, inst, ev) == [ call |-> name, on |-> inst, ev |-> ev ]

\* Mutant: the terminal is cleared after the replay was requested.
ActivationCallsClearLast(transferring, inst) ==
    [ k \in 1..Len(EventOrder) |-> CallOf("addListener", inst, EventOrder[k]) ]
    \o << CallOf("send", inst, "SEND_LOGS") >>
    \o (IF ~transferring THEN << CallOf("terminal.clear", NoInstance, "") >> ELSE << >>)

\* The calls of the effect body when it activates, in the order it makes them.
ActivationCalls(transferring, inst) ==
    (IF ~transferring THEN << CallOf("terminal.clear", NoInstance, "") >> ELSE << >>)
    \o [ k \in 1..Len(EventOrder) |-> CallOf("addListener", inst, EventOrder[k]) ]
    \o << CallOf("send", inst, "SEND_LOGS") >>

EffectCalls(conn, inst, transferring) ==
    IF ShouldActivate(conn, inst) THEN ActivationCalls(transferring, inst) ELSE << >>

\* The calls of the cleanup of the run eff.
CleanupCalls(eff) ==
    IF eff.instance # NoInstance
    THEN [ k \in 1..Len(EventOrder) |-> CallOf("removeListener", eff.instance, EventOrder[k]) ]
    ELSE << >>

\* One run of the effect body on the values of the new render, the listener
\* arrays being reg and the terminal holding buf.
RunEffect(reg, buf) ==
    \E c \in Cycles :
       /\ c \notin LiveCycles(reg)
       /\ \A d \in Cycles : d < c => d \in LiveCycles(reg)
       /\ effect' = [ instance |-> instance', cycle |-> c ]
       /\ IF ShouldActivate(connected', instance')
          THEN /\ buffer' = ClearedBuffer(isTransferring', buf)
               /\ registered' = Subscribe(reg, instance', c)
               /\ sent' = SendLogs(instance')
          ELSE /\ buffer' = buf
               /\ registered' = reg
               /\ sent' = << >>

\* A change of a dependency while mounted: the cleanup of the previous run,
\* then the effect body.
Rerun == IF mounted
         THEN /\ RunEffect(Cleanup(effect, registered), buffer)
              /\ calls' = CleanupCalls(effect)
                            \o EffectCalls(connected', instance', isTransferring')
         ELSE /\ UNCHANGED << buffer, registered, effect >>
              /\ sent' = << >>
              /\ calls' = << >>

NoDelivery == [ to |-> NoInstance, ev |-> "", payload |-> << >> ]

(***************************************************************************)
(* The persisted state: one value per key, read when the component mounts  *)
(* and written with every change of the state.                             *)
(***************************************************************************)
\* Mutant: the key does not name the server.
HistoryKeyShared(id) == << 0, ":command_history" >>

HistoryKey(id) == << id, ":command_history" >>

StorageKeys == { HistoryKey(id) : id \in ServerIds }

StoredHistory(store, key) == store[key]

Persist(store, key, value) == [ store EXCEPT ![key] = value ]

Mount ==
    /\ ~mounted
    /\ mounted' = TRUE
    /\ historyIndex' = -1
    /\ inputValue' = << >>
    /\ history' = StoredHistory(storage, HistoryKey(serverId))
    /\ UNCHANGED << connected, instance, isTransferring, canSendCommands,
                    serverId, storage, submitted, nSubmitted >>
    /\ RunEffect(registered, << >>)
    /\ calls' = EffectCalls(connected', instance', isTransferring')
    /\ delivered' = NoDelivery
    /\ lastOp' = "mount"

Unmount ==
    /\ mounted
    /\ mounted' = FALSE
    /\ UNCHANGED << connected, instance, isTransferring, canSendCommands,
                    history, serverId, storage, submitted, nSubmitted, buffer >>
    /\ registered' = Cleanup(effect, registered)
    /\ effect' = NoEffect
    /\ historyIndex' = -1
    /\ inputValue' = << >>
    /\ sent' = << >>
    /\ calls' = CleanupCalls(effect)
    /\ delivered' = NoDelivery
    /\ lastOp' = "unmount"

SetConnected ==
    /\ connected' = ~connected
    /\ UNCHANGED << mounted, instance, isTransferring, canSendCommands,
                    history, historyIndex, inputValue, serverId, storage,
                    submitted, nSubmitted >>
    /\ Rerun
    /\ delivered' = NoDelivery
    /\ lastOp' = "connected"

SetInstance(i) ==
    /\ i # instance
    /\ instance' = i
    /\ UNCHANGED << mounted, connected, isTransferring, canSendCommands,
                    history, historyIndex, inputValue, serverId, storage,
                    submitted, nSubmitted >>
    /\ Rerun
    /\ delivered' = NoDelivery
    /\ lastOp' = "instance"

\* Mutant: isTransferring is a dependency of the listener effect.
SetTransferringRerun ==
    /\ isTransferring' = ~isTransferring
    /\ UNCHANGED << mounted, connected, instance, canSendCommands, history,
                    historyIndex, inputValue, serverId, storage, submitted,
                    nSubmitted >>
    /\ Rerun
    /\ delivered' = NoDelivery
    /\ lastOp' = "transferring"

SetTransferring ==
    /\ isTransferring' = ~isTransferring
    /\ sent' = << >>
    /\ calls' = << >>
    /\ delivered' = NoDelivery
    /\ UNCHANGED << mounted, connected, instance, canSendCommands, history,
                    historyIndex, inputValue, buffer, registered, effect,
                    serverId, storage, submitted, nSubmitted >>
    /\ lastOp' = "transferring"

\* The input row is rendered only with the permission: without it the input
\* element, and the text it held, is gone.
SetPermission ==
    /\ canSendCommands' = ~canSendCommands
    /\ inputValue' = IF canSendCommands' THEN inputValue ELSE << >>
    /\ sent' = << >>
    /\ calls' = << >>
    /\ delivered' = NoDelivery
    /\ UNCHANGED << mounted, connected, instance, isTransferring, history,
                    historyIndex, buffer, registered, effect, serverId,
                    storage, submitted, nSubmitted >>
    /\ lastOp' = "permission"

\* The page shows another server: the console of the previous one is gone,
\* the next mount reads what is stored for the new one.
SwitchServer(id) ==
    /\ ~mounted
    /\ id # serverId
    /\ serverId' = id
    /\ submitted' = StoredHistory(storage, HistoryKey(id))
    /\ sent' = << >>
    /\ calls' = << >>
    /\ delivered' = NoDelivery
    /\ UNCHANGED << mounted, connected, instance, isTransferring, canSendCommands,
                    history, historyIndex, inputValue, buffer, registered,
                    effect, storage, nSubmitted >>
    /\ lastOp' = "server"

(***************************************************************************)
(* The command input: handleCommandKeyDown.                                *)
(***************************************************************************)
Min(a, b) == IF a <= b THEN a ELSE b

Max(a, b) == IF a >= b THEN a ELSE b

\* Mutant: the index is not clamped to the last entry.
ArrowUpIndexUnclamped(idx, h) == idx + 1

ArrowUpIndex(idx, h) == Min(idx + 1, Len(h) - 1)

ArrowDownIndex(idx) == Max(idx - 1, -1)

\* history![newIndex] || ''
Recall(h, idx) == IF idx \in 0..(Len(h) - 1) /\ h[idx + 1] # << >> THEN h[idx + 1] ELSE << >>

\* Mutant: no slice.
AppendHistoryUntrimmed(prev, command) == << command >> \o prev

\* Mutant: slice(-32), the last entries are kept.
AppendHistoryKeepLast(prev, command) ==
    LET all == << command >> \o prev
    IN  SubSeq(all, Max(1, Len(all) - HISTORY_LIMIT + 1), Len(all))

\* [ command, ...prevHistory! ].slice(0, 32)
AppendHistory(prev, command) ==
    SubSeq(<< command >> \o prev, 1, Min(Len(prev) + 1, HISTORY_LIMIT))

\* Mutant: the length of the command is not tested.
SubmitAcceptedAnyText(key, command) == key = "Enter"

SubmitAccepted(key, command) == key = "Enter" /\ Len(command) > 0

\* Mutant: the request carries no command.
SendCommandNoPayload(inst, command) ==
    IF inst # NoInstance
    THEN << [ to |-> inst, event |-> "send command", args |-> << >> ] >>
    ELSE << >>

SendCommand(inst, command) ==
    IF inst # NoInstance
    THEN << [ to |-> inst, event |-> "send command", args |-> << command >> ] >>
    ELSE << >>

\* Mutant: the input stays enabled without a connection.
InputEnabledNoConnection(can, inst, conn) == can /\ inst # NoInstance

\* The input row is rendered with the permission, the input is disabled
\* without an instance or a connection.
InputEnabled(can, inst, conn) == can /\ ~(inst = NoInstance \/ ~conn)

KeyDown(key) ==
    /\ mounted
    /\ InputEnabled(canSendCommands, instance, connected)
    /\ LET upIndex   == ArrowUpIndex(historyIndex, history)
           downIndex == ArrowDownIndex(historyIndex)
           index     == CASE key = "ArrowUp" -> upIndex
                          [] key = "ArrowDown" -> downIndex
                          [] OTHER -> historyIndex
           command   == CASE key = "ArrowUp" -> Recall(history, upIndex)
                          [] key = "ArrowDown" -> Recall(history, downIndex)
                          [] OTHER -> inputValue
       IN  IF SubmitAccepted(key, command)
           THEN /\ nSubmitted < MaxSubmit
                /\ history' = AppendHistory(history, command)
                /\ historyIndex' = -1
                /\ sent' = SendCommand(instance, command)
                /\ inputValue' = << >>
                /\ storage' = Persist(storage, HistoryKey(serverId), history')
                /\ submitted' = << command >> \o submitted
                /\ nSubmitted' = nSubmitted + 1
           ELSE /\ historyIndex' = index
                /\ inputValue' = command
                /\ sent' = << >>
                /\ UNCHANGED << history, storage, submitted, nSubmitted >>
    /\ calls' = << >>
    /\ delivered' = NoDelivery
    /\ UNCHANGED << mounted, connected, instance, isTransferring, canSendCommands,
                    buffer, registered, effect, serverId >>
    /\ lastOp' = key

ArrowUp == KeyDown("ArrowUp")

ArrowDown == KeyDown("ArrowDown")

Enter == KeyDown("Enter")

\* The user edits the text of the enabled input.
Texts == { << >>, << "a" >>, << "b" >> }

EditInput(text) ==
    /\ mounted
    /\ InputEnabled(canSendCommands, instance, connected)
    /\ text # inputValue
    /\ inputValue' = text
    /\ sent' = << >>
    /\ calls' = << >>
    /\ delivered' = NoDelivery
    /\ UNCHANGED << mounted, connected, instance, isTransferring, canSendCommands,
                    history, historyIndex, buffer, registered, effect,
                    serverId, storage, submitted, nSubmitted >>
    /\ lastOp' = "edit"

(***************************************************************************)
(* A connection instance emits an event: its listeners for the event name  *)
(* are called in the order of the array.                                   *)
(***************************************************************************)
Payloads(ev) ==
    CASE ev = "TRANSFER_STATUS" -> { << "failure" >>, << "archive" >>, << "bogus" >> }
      [] ev = "STATUS" -> { << "running" >> }
      [] OTHER -> { << "x", LF >> }

RECURSIVE Written(_, _)
Written(list, payload) ==
    IF list = << >> THEN << >>
    ELSE Call(Head(list), payload) \o Written(Tail(list), payload)

Emit(i, ev, payload) ==
    /\ Len(buffer) < MaxBuf
    /\ buffer' = buffer \o Written(registered[i][ev], payload)
    /\ sent' = << >>
    /\ calls' = << >>
    /\ delivered' = [ to |-> i, ev |-> ev, payload |-> payload ]
    /\ UNCHANGED << mounted, connected, instance, isTransferring, canSendCommands,
                    history, historyIndex, inputValue, registered, effect,
                    serverId, storage, submitted, nSubmitted >>
    /\ lastOp' = "emit"

(***************************************************************************)
(* The history persisted by earlier sessions: none, or one entry short of  *)
(* the limit.                                                              *)
(***************************************************************************)
OldHistory(n) == [ k \in 1..n |-> IF k % 3 = 0 THEN << "a" >> ELSE << "b" >> ]

PersistedHistories == { << >>, OldHistory(HISTORY_LIMIT - 1) }

Init ==
    /\ mounted = FALSE
    /\ connected = FALSE
    /\ instance = NoInstance
    /\ isTransferring = FALSE
    /\ canSendCommands = TRUE
    /\ history \in PersistedHistories
    /\ historyIndex = -1
    /\ inputValue = << >>
    /\ buffer = << >>
    /\ registered = NoListeners
    /\ effect = NoEffect
    /\ sent = << >>
    /\ calls = << >>
    /\ delivered = NoDelivery
    /\ serverId = 1
    /\ storage = [ key \in StorageKeys |-> history ]
    /\ submitted = history
    /\ nSubmitted = 0
    /\ lastOp = "init"

\* Mounting, unmounting and the changes of the store.
Lifecycle ==
    \/ Mount
    \/ Unmount
    \/ SetConnected
    \/ \E i \in Instances \cup { NoInstance } : SetInstance(i)
    \/ SetTransferring
    \/ SetPermission

\* The output stream: events delivered by the connection instances.
Stream ==
    \E i \in Instances, ev \in EventNames : \E payload \in Payloads(ev) : Emit(i, ev, payload)

\* The command input.
Input ==
    \/ ArrowUp
    \/ ArrowDown
    \/ Enter
    \/ \E text \in Texts : EditInput(text)

Next == Lifecycle \/ Stream \/ Input \/ \E id \in ServerIds : SwitchServer(id)

Spec == Init /\ [][Next]_vars

(***************************************************************************)
(* The output stream and the command input share no state but the store:   *)
(* no event handler reads or writes the history, the cursor or the input,  *)
(* no key handler reads or writes the listener arrays or the terminal.     *)
(* Each is checked with the lifecycle, without the steps of the other.     *)
(***************************************************************************)
NextStream == Lifecycle \/ Stream

SpecStream == Init /\ [][NextStream]_vars

NextInput == Lifecycle \/ Input

SpecInput == Init /\ [][NextInput]_vars

(***************************************************************************)
(* The histories of several servers: the console is mounted for one server *)
(* after the other and commands are submitted on each.                     *)
(***************************************************************************)
NextServers ==
    \/ Mount
    \/ Unmount
    \/ SetConnected
    \/ \E i \in Instances \cup { NoInstance } : SetInstance(i)
    \/ \E id \in ServerIds : SwitchServer(id)
    \/ Enter
    \/ \E text \in Texts : EditInput(text)

SpecServers == Init /\ [][NextServers]_vars

(***************************************************************************)
(* The line handlers as functions of the payload: the controller has just  *)
(* mounted on a connected instance, and one event with any payload of up   *)
(* to MaxLine characters, terminators included, is delivered to it.        *)
(***************************************************************************)
Alphabet == { "x", CR, LF }

Lines == UNION { [ 1..n -> Alphabet ] : n \in 0..MaxLine }

RenderPayloads(ev) == Lines \cup Payloads(ev)

InitRender ==
    /\ mounted = TRUE
    /\ connected = TRUE
    /\ instance = 1
    /\ isTransferring \in BOOLEAN
    /\ canSendCommands \in BOOLEAN
    /\ history = << >>
    /\ historyIndex = -1
    /\ inputValue = << >>
    /\ buffer = << >>
    /\ registered = Subscribe(NoListeners, 1, 1)
    /\ effect = [ instance |-> 1, cycle |-> 1 ]
    /\ sent = SendLogs(1)
    /\ calls = EffectCalls(TRUE, 1, isTransferring)
    /\ delivered = NoDelivery
    /\ serverId = 1
    /\ storage = [ key \in StorageKeys |-> << >> ]
    /\ submitted = << >>
    /\ nSubmitted = 0
    /\ lastOp = "mount"

Render(ev, payload) == buffer = << >> /\ Emit(1, ev, payload)

NextRender == \E ev \in EventNames : \E payload \in RenderPayloads(ev) : Render(ev, payload)

SpecRender == InitRender /\ [][NextRender]_vars

(***************************************************************************)
(* Properties.                                                             *)
(***************************************************************************)
Active == mounted /\ connected /\ instance # NoInstance

Joint == connected /\ instance # NoInstance

NothingRegisteredOn(i) == \A ev \in EventNames : registered[i][ev] = << >>

KeyOps == { "ArrowUp", "ArrowDown", "Enter" }

\* C1: on every instance the registered handlers are none, or exactly the
\* seven handlers, one per event name, of the most recent run of the effect
\* on that instance; no partial set is reachable.
C1_AllOrNothing ==
    \A i \in Instances :
       \/ NothingRegisteredOn(i)
       \/ /\ effect.instance = i
          /\ \A ev \in EventNames :
                registered[i][ev] = << [ fn |-> HandlerName(ev), cycle |-> effect.cycle ] >>

\* An instance change that activated on the new instance, after an earlier
\* activation had rendered lines.
C1_Witness ==
    /\ lastOp = "instance"
    /\ instance # NoInstance
    /\ ~NothingRegisteredOn(instance)
    /\ \A i \in Instances \ { instance } : NothingRegisteredOn(i)
    /\ buffer # << >>

\* C2: once deactivated (unmounted, disconnected or without an instance), an
\* event delivered on any instance leaves the terminal as it was.
C2_NoWriteAfterTeardown ==
    [][ (lastOp' = "emit" /\ ~Active) => buffer' = buffer ]_vars

\* An event delivered after a disconnect that followed an activation whose
\* handlers had written a line.
C2_Witness ==
    /\ lastOp = "emit"
    /\ mounted
    /\ ~connected
    /\ instance # NoInstance
    /\ buffer # << >>

\* C3: when the mounted controller enters (connected and instance present),
\* the terminal keeps its lines if the server is transferring and holds no
\* line if it is not.
C3_ClearPolicy ==
    [][ (mounted /\ mounted' /\ ~Joint /\ Joint')
          => IF isTransferring' THEN buffer' = buffer ELSE buffer' = << >> ]_vars

\* A reconnect during a transfer that kept the lines written before it.
C3_Witness ==
    /\ lastOp = "connected"
    /\ Active
    /\ isTransferring
    /\ buffer # << >>

\* C4: the history never holds more than 32 entries.
C4_HistoryBounded == Len(history) <= 32

\* Two submissions on a history of 31 entries: the second one was trimmed.
C4_Witness ==
    /\ lastOp = "Enter"
    /\ nSubmitted = 2
    /\ Len(submitted) = 33
    /\ Len(history) = 32

\* C5: a submission of C on the history h leaves the first 32 entries of C
\* followed by h, and the history is always the 32 most recent of all the
\* commands ever submitted, most recent first.
C5_SubmitPrepends ==
    /\ [](history = SubSeq(submitted, 1, IF Len(submitted) < 32 THEN Len(submitted) ELSE 32))
    /\ [][ (lastOp' = "Enter" /\ inputValue # << >>)
             => /\ Len(history') = (IF Len(history) < 32 THEN Len(history) + 1 ELSE 32)
                /\ history'[1] = inputValue
                /\ \A k \in 2..Len(history') : history'[k] = history[k - 1] ]_vars

\* A submission on a full history: the oldest of the 33 commands is gone.
C5_Witness ==
    /\ lastOp = "Enter"
    /\ Len(submitted) = 33
    /\ Len(history) = 32
    /\ history[1] = submitted[1]
    /\ history[32] = submitted[32]

\* C6: the cursor is within [-1, N-1]; Up moves it to min(cursor+1, N-1),
\* Down to max(cursor-1, -1), and after either key the input shows the
\* entry under the cursor, or nothing at cursor -1.
C6_CursorInRange ==
    /\ [](/\ historyIndex \in (-1)..(Len(history) - 1)
          /\ lastOp \in { "ArrowUp", "ArrowDown" }
               => inputValue = IF historyIndex = -1 THEN << >> ELSE history[historyIndex + 1])
    /\ [][ /\ lastOp' = "ArrowUp"
               => historyIndex' = IF historyIndex + 1 <= Len(history) - 1
                                  THEN historyIndex + 1 ELSE Len(history) - 1
           /\ lastOp' = "ArrowDown"
               => historyIndex' = IF historyIndex - 1 >= -1 THEN historyIndex - 1 ELSE -1 ]_vars

\* Up pressed to the oldest entry of a history of 31.
C6_Witness ==
    /\ lastOp = "ArrowUp"
    /\ Len(history) = 31
    /\ historyIndex = 30
    /\ inputValue = history[31]

\* C7: Enter on an empty input changes neither the history nor the cursor
\* and sends nothing.
C7_EmptyEnterNoOp ==
    [][ (lastOp' = "Enter" /\ inputValue = << >>)
          => /\ history' = history
             /\ historyIndex' = historyIndex
             /\ sent' = << >> ]_vars

\* Enter pressed on an emptied input while an entry was being recalled.
C7_Witness ==
    /\ lastOp = "Enter"
    /\ historyIndex >= 0
    /\ inputValue = << >>
    /\ sent = << >>

\* C8: Enter on the input C puts C at the front of the history, resets the
\* cursor to -1, sends one "send command" request carrying C on the instance
\* and empties the input.
C8_SubmitEffects ==
    [][ (lastOp' = "Enter" /\ inputValue # << >>)
          => /\ history'[1] = inputValue
             /\ historyIndex' = -1
             /\ sent' = << [ to |-> instance, event |-> "send command",
                             args |-> << inputValue >> ] >>
             /\ inputValue' = << >> ]_vars

\* A submission: the request carries the command now at the front.
C8_Witness ==
    /\ lastOp = "Enter"
    /\ Len(sent) = 1
    /\ sent[1].event = "send command"
    /\ sent[1].args = << history[1] >>
    /\ historyIndex = -1
    /\ inputValue = << >>

\* C9: without an instance, a connection or the permission, no key or edit
\* changes the history, the cursor or the input, and none sends a request.
C9_InputGate ==
    [][ ((instance = NoInstance \/ ~connected \/ ~canSendCommands)
           /\ lastOp' \in KeyOps \cup { "edit" })
          => /\ history' = history
             /\ historyIndex' = historyIndex
             /\ inputValue' = inputValue
             /\ sent' = << >> ]_vars

\* The connection was lost while an entry was being recalled.
C9_Witness ==
    /\ lastOp = "connected"
    /\ mounted
    /\ ~connected
    /\ canSendCommands
    /\ instance # NoInstance
    /\ historyIndex >= 0

\* C10: handlers are registered, and a replay is requested, only while the
\* controller is mounted, connected and has an instance.
C10_ActiveOnlyWhenJoint ==
    /\ (\E i \in Instances : ~NothingRegisteredOn(i)) => Active
    /\ (\E k \in DOMAIN sent : sent[k].event = "SEND_LOGS") => Active

\* An activation by a reconnect.
C10_Witness ==
    /\ lastOp = "connected"
    /\ instance # NoInstance
    /\ ~NothingRegisteredOn(instance)
    /\ Len(sent) = 1
    /\ sent[1].event = "SEND_LOGS"

FullOn(i) ==
    \A ev \in EventNames :
       /\ Len(registered[i][ev]) = 1
       /\ registered[i][ev][1].fn = HandlerName(ev)

\* A step that ran the effect body with connected and an instance.
Activates == lastOp' \in { "mount", "connected", "instance" } /\ mounted' /\ Joint'

IsPrefix(a, b) == Len(a) <= Len(b) /\ SubSeq(b, 1, Len(a)) = a

\* C11: every activation leaves one handler per event name on the instance
\* and sends one "send logs" request without payload, no other step sends
\* one, and no event name ever has two handlers.
C11_OneSubscribeOneReplay ==
    /\ [](\A i \in Instances : \A ev \in EventNames : Len(registered[i][ev]) <= 1)
    /\ [][ IF Activates
           THEN /\ \A ev \in EventNames : Len(registered'[instance'][ev]) = 1
                /\ sent' = << [ to |-> instance', event |-> "SEND_LOGS", args |-> << >> ] >>
           ELSE \A k \in DOMAIN sent' : sent'[k].event # "SEND_LOGS" ]_vars

\* A reconnect, after lines were rendered by an earlier activation, that
\* removed nothing and subscribed anew.
C11_Witness ==
    /\ lastOp = "connected"
    /\ Active
    /\ buffer # << >>
    /\ FullOn(instance)
    /\ sent = << [ to |-> instance, event |-> "SEND_LOGS", args |-> << >> ] >>
    /\ Len(calls) = 15

\* C12: a transfer status delivered to the active controller appends one
\* notice for "failure", one for "archive", and nothing for any other value.
C12_TransferStatus ==
    [][ (lastOp' = "emit" /\ delivered'.ev = "TRANSFER_STATUS"
           /\ Active /\ delivered'.to = instance)
          => IF delivered'.payload \in { << "failure" >>, << "archive" >> }
             THEN Len(buffer') = Len(buffer) + 1 /\ IsPrefix(buffer, buffer')
             ELSE buffer' = buffer ]_vars

\* An unknown status was delivered to the active controller.
C12_Witness ==
    /\ lastOp = "emit"
    /\ Active
    /\ delivered.to = instance
    /\ delivered.ev = "TRANSFER_STATUS"
    /\ delivered.payload = << "bogus" >>
    /\ buffer = << >>

\* C13: without the permission the controller is subscribed whenever it is
\* active, an activation sends the replay request, and an event delivered
\* to it is rendered by the handler of the event as with the permission; a
\* change of the permission touches neither the listeners nor the terminal.
C13_StreamWithoutPermission ==
    /\ []((Active /\ ~canSendCommands) => FullOn(instance))
    /\ [][ /\ (Activates /\ ~canSendCommands')
               => sent' = << [ to |-> instance', event |-> "SEND_LOGS", args |-> << >> ] >>
           /\ lastOp' = "permission" => registered' = registered /\ buffer' = buffer
           /\ (lastOp' = "emit" /\ Active /\ delivered'.to = instance)
               => buffer' = buffer \o Call([ fn |-> HandlerName(delivered'.ev) ],
                                           delivered'.payload) ]_vars

\* A daemon message rendered for a controller without the permission.
C13_Witness ==
    /\ lastOp = "emit"
    /\ ~canSendCommands
    /\ Active
    /\ delivered.to = instance
    /\ delivered.ev = "DAEMON_MESSAGE"
    /\ Len(buffer) = 1

\* C15: an activation clears (if it clears) before it adds a listener and
\* adds every listener before it requests the replay; a delivered event
\* never removes a line.
C15_ClearThenSubscribeThenReplay ==
    /\ [](\A j, k \in DOMAIN calls :
            /\ (calls[j].call = "terminal.clear" /\ calls[k].call = "addListener") => j < k
            /\ (calls[j].call = "addListener" /\ calls[k].call = "send") => j < k)
    /\ [][ lastOp' = "emit" => IsPrefix(buffer, buffer') ]_vars

\* A clearing activation: the clear, seven listeners, the request.
C15_Witness ==
    /\ lastOp = "mount"
    /\ Active
    /\ Len(calls) = 9
    /\ calls[1].call = "terminal.clear"
    /\ calls[9].call = "send"

\* C16: a cleanup that runs while no handler is registered, and is not
\* followed by an activation in the same step, changes nothing: no handler,
\* no line, no entry of the history, no request.
C16_CleanupIdempotent ==
    [][ (/\ mounted
         /\ \A i \in Instances : NothingRegisteredOn(i)
         /\ lastOp' \in { "unmount", "connected", "instance" }
         /\ ~(mounted' /\ Joint'))
          => /\ registered' = registered
             /\ buffer' = buffer
             /\ history' = history
             /\ (mounted' => historyIndex' = historyIndex)
             /\ sent' = << >> ]_vars

\* An unmount after a disconnect: the second cleanup in a row called
\* removeListener seven times and the lines are still there.
C16_Witness ==
    /\ lastOp = "unmount"
    /\ ~connected
    /\ instance # NoInstance
    /\ Len(calls) = 7
    /\ buffer # << >>
    /\ \A i \in Instances : NothingRegisteredOn(i)

\* C19: no instance but the one of the store holds a handler, and when an
\* instance replaces another the old one is left without handlers and the
\* new one has the seven exactly if connected.
C19_InstanceReplaced ==
    /\ [](\A i \in Instances \ { instance } : NothingRegisteredOn(i))
    /\ [][ (mounted /\ lastOp' = "instance" /\ instance # NoInstance /\ instance' # NoInstance)
             => /\ \A ev \in EventNames : registered'[instance][ev] = << >>
                /\ \A ev \in EventNames :
                      Len(registered'[instance'][ev]) = IF connected' THEN 1 ELSE 0 ]_vars

\* Instance 1 was replaced by instance 2 while connected: the cleanup called
\* removeListener on 1, the effect addListener on 2.
C19_Witness ==
    /\ lastOp = "instance"
    /\ Active
    /\ instance = 2
    /\ calls # << >>
    /\ calls[1] = [ call |-> "removeListener", on |-> 1, ev |-> "STATUS" ]
    /\ FullOn(2)
    /\ NothingRegisteredOn(1)

\* C20: a change of isTransferring leaves the terminal and the listeners
\* alone and sends nothing; lines leave the terminal of a mounted controller
\* only in a step that activates while not transferring.
C20_TransferChangeIsInert ==
    [][ /\ lastOp' = "transferring"
            => buffer' = buffer /\ registered' = registered /\ sent' = << >> /\ calls' = << >>
        /\ (lastOp' # "mount" /\ ~IsPrefix(buffer, buffer'))
            => Activates /\ ~isTransferring' ]_vars

\* The transfer ended while the controller was active and held lines.
C20_Witness ==
    /\ lastOp = "transferring"
    /\ ~isTransferring
    /\ Active
    /\ FullOn(instance)
    /\ buffer # << >>

\* C14: a submission while the console is bound to a server stores the new
\* history under the key of that server and leaves what is stored for every
\* other server as it was.
C14_HistoryPerServer ==
    [][ (lastOp' = "Enter" /\ inputValue # << >>)
          => /\ storage'[HistoryKey(serverId)] = history'
             /\ \A id \in ServerIds \ { serverId } :
                   storage'[HistoryKey(id)] = storage[HistoryKey(id)] ]_vars

\* A command submitted on server 1, then another on server 2.
C14_Witness ==
    /\ lastOp = "Enter"
    /\ serverId = 2
    /\ nSubmitted = 2
    /\ storage[HistoryKey(1)] = << << "a" >> >>
    /\ storage[HistoryKey(2)] = << << "b" >> >>

\* The text without the line terminator (CRLF, CR or LF) at its very end.
DropTrailing(line) ==
    LET n == Len(line)
    IN  IF n >= 2 /\ line[n - 1] = CR /\ line[n] = LF THEN SubSeq(line, 1, n - 2)
        ELSE IF n >= 1 /\ line[n] \in { CR, LF } THEN SubSeq(line, 1, n - 1)
        ELSE line

Rendered == buffer[Len(buffer)]

DeliveredToActive == lastOp = "emit" /\ Active /\ delivered.to = instance

\* C17: a console output, install output or transfer log is rendered as its
\* payload, without prelude, less at most the one line terminator at the
\* very end of the payload (and closed by the reset marker).
C17_OnlyTrailingTerminatorStripped ==
    (DeliveredToActive /\ delivered.ev \in { "CONSOLE_OUTPUT", "INSTALL_OUTPUT", "TRANSFER_LOGS" })
      => /\ buffer # << >>
         /\ Rendered \in { delivered.payload \o << RESET >>,
                           DropTrailing(delivered.payload) \o << RESET >> }

\* C18: a status, transfer notice, daemon message or daemon error line ends
\* with the reset marker, and a daemon error is the prelude, the error
\* marker, the payload less its trailing terminator and the reset marker.
C18_MarkersClosed ==
    (DeliveredToActive /\ buffer # << >>
       /\ delivered.ev \in { "STATUS", "TRANSFER_STATUS", "DAEMON_MESSAGE", "DAEMON_ERROR" })
      => /\ Rendered[Len(Rendered)] = RESET
         /\ delivered.ev = "DAEMON_ERROR"
              => Rendered = TERMINAL_PRELUDE \o ERROR_MARKER
                              \o DropTrailing(delivered.payload) \o << RESET >>

====
